---- MODULE Spec2Model ----
(***************************************************************************)
(* Frame pacing / fence synchronisation of the D3D12 tutorial              *)
(* (src/D3D12-Tutorial/main.cpp): Signal, WaitForFenceValue, Flush, the    *)
(* fence event created by CreateEventHandle, the fence created by          *)
(* CreateFence, and the per-frame fence value table.                       *)
(*                                                                         *)
(* One producer thread (the CPU) runs the operations step by step; the     *)
(* command queue, the fence and the event object are the engine (GPU/OS)   *)
(* side, which advances on its own.                                        *)
(***************************************************************************)
EXTENDS Integers, Sequences, FiniteSets, Bags, TLC

(* ------------------------------------------------------------------ *)
(* Bounds of the model                                                *)
(* ------------------------------------------------------------------ *)

\* No Signal is started once g_FenceValue has reached MaxFence.
MaxFence == 4

\* No wait is started while MaxRegs SetEventOnCompletion registrations are
\* still pending on the fence.
MaxRegs == 2

(* ------------------------------------------------------------------ *)
(* Program constants                                                  *)
(* ------------------------------------------------------------------ *)

\* const uint8_t g_NumFrames = 3;
g_NumFrames == 3

Slots == 0 .. (g_NumFrames - 1)

\* A 64-bit millisecond count is written as four 16-bit limbs, least
\* significant first.
\* std::chrono::milliseconds::max().count() = 2^63 - 1, the default duration
\* of WaitForFenceValue.
MillisecondsMax == <<65535, 65535, 65535, 32767>>

\* A caller-chosen short timeout of one millisecond.
OneMillisecond == <<1, 0, 0, 0>>

Durations == {MillisecondsMax, OneMillisecond}

\* The high 32 bits of the count in place of the low ones.
HighDWORD(count) == SubSeq(count, 3, 4)

\* static_cast<DWORD>(duration.count()): the low 32 bits of the count.
StaticCastDWORD(count) == SubSeq(count, 1, 2)

\* INFINITE (0xFFFFFFFF), the timeout with which WaitForSingleObject never
\* times out.
INFINITE == <<65535, 65535>>

(* ------------------------------------------------------------------ *)
(* State                                                              *)
(* ------------------------------------------------------------------ *)

VARIABLES
    g_FenceValue,             \* uint64_t g_FenceValue: the CPU-side counter
    g_FrameFenceValues,       \* uint64_t g_FrameFenceValues[g_NumFrames]
    g_CurrentBackBufferIndex, \* UINT g_CurrentBackBufferIndex: the slot in use
    completed,                \* the value the command queue last set g_Fence to
    deviceRemoved,            \* the device was removed: GetCompletedValue() = UINT64_MAX
    queue,                    \* fence signals enqueued on g_CommandQueue, oldest first
    eventSet,                 \* g_FenceEvent is signalled (auto-reset event)
    regs,                     \* bag of values registered with SetEventOnCompletion
    pc,                       \* where the producer thread is
    op,                       \* the operation the producer called last
    fenceValue,               \* WaitForFenceValue's parameter fenceValue
    duration,                 \* WaitForFenceValue's parameter duration
    fenceValueForSignal,      \* Signal's local, its return value
    result,                   \* how the last operation ended for its caller
    waitEnd,                  \* how the last WaitForFenceValue left (not visible to the caller)
    engineFailed,             \* an engine call of the last operation failed
    callCounter,              \* g_FenceValue when the last operation was called
    returned,                 \* the values Signal has returned, in order
    usedSlots,                \* the slot of each render-loop iteration, in order
    waitTargets,              \* the value each iteration waited for
    iterSignals               \* the value each iteration's Signal returned

cpuVars    == <<g_FenceValue, g_FrameFenceValues, g_CurrentBackBufferIndex>>
engineVars == <<completed, deviceRemoved, queue, eventSet, regs>>
callVars   == <<pc, op, fenceValue, duration, fenceValueForSignal, result,
                waitEnd, engineFailed, callCounter>>
histVars   == <<returned, usedSlots, waitTargets, iterSignals>>
vars       == <<cpuVars, engineVars, callVars, histVars>>

(* ------------------------------------------------------------------ *)
(* Construction                                                       *)
(* ------------------------------------------------------------------ *)

\* uint64_t g_FrameFenceValues[g_NumFrames] = {};
InitFrameFenceValues == [i \in Slots |-> 0]

\* device->CreateFence(0, ...): the fence starts at 0.
CreateFence == 0

\* ::CreateEvent(NULL, FALSE, FALSE, NULL): auto-reset, initially non-signalled.
CreateEventHandle == FALSE

\* The slot index before the first iteration: the loop advances first, so the
\* first iteration lands on slot 0.
InitBackBufferIndex == g_NumFrames - 1

Init ==
    /\ g_FenceValue = 0
    /\ g_FrameFenceValues = InitFrameFenceValues
    /\ g_CurrentBackBufferIndex = InitBackBufferIndex
    /\ completed = CreateFence
    /\ deviceRemoved = FALSE
    /\ queue = <<>>
    /\ eventSet = CreateEventHandle
    /\ regs = EmptyBag
    /\ pc = "idle"
    /\ op = "none"
    /\ fenceValue = 0
    /\ duration = MillisecondsMax
    /\ fenceValueForSignal = 0
    /\ result = "none"
    /\ waitEnd = "none"
    /\ engineFailed = FALSE
    /\ callCounter = 0
    /\ returned = <<>>
    /\ usedSlots = <<>>
    /\ waitTargets = <<>>
    /\ iterSignals = <<>>

(* ------------------------------------------------------------------ *)
(* The engine's calls as the producer sees them                       *)
(* ------------------------------------------------------------------ *)

\* The fence's value is at least v: the queue has set it to v or more, or the
\* device was removed and the fence reads UINT64_MAX.
FenceAtLeast(v) == deviceRemoved \/ completed >= v

\* The comparison the other way round.
FenceLessReversed(fv) == ~deviceRemoved /\ completed > fv

\* The comparison against the latest counter value instead of the target.
FenceLessLatest(fv) == ~deviceRemoved /\ completed < g_FenceValue

\* The comparison with <= in place of <.
FenceLessOrEqual(fv) == ~deviceRemoved /\ completed <= fv

\* fence->GetCompletedValue() < fv, as WaitForFenceValue compares.  On a
\* removed device GetCompletedValue() is UINT64_MAX, which is below no uint64_t.
FenceLess(fv) == ~deviceRemoved /\ completed < fv

\* The HRESULTs an engine call (commandQueue->Signal, SetEventOnCompletion)
\* can come back with: success, and on a removed device also failure.
EngineCallSucceeds == IF deviceRemoved THEN BOOLEAN ELSE {TRUE}

\* fenceValue + 1 : the counter is left as it was, the expression is the next
\* value.
NoIncrement(fv) == [counter |-> fv, value |-> fv + 1]

\* fenceValue++ : the counter is incremented, the expression is the old value.
PostIncrement(fv) == [counter |-> fv + 1, value |-> fv]

\* ++fenceValue : the counter is incremented, the expression is the new value.
PreIncrement(fv) == [counter |-> fv + 1, value |-> fv + 1]

\* ThrowIfFailed(hr) with a failed hr: the exception leaves the operation.
Throw ==
    /\ pc' = "threw"
    /\ result' = "DeviceError"
    /\ engineFailed' = TRUE

(* ------------------------------------------------------------------ *)
(* Producer: calls                                                    *)
(* ------------------------------------------------------------------ *)

Call(name) ==
    /\ pc = "idle"
    /\ op' = name
    /\ result' = "pending"
    /\ waitEnd' = "none"
    /\ engineFailed' = FALSE
    /\ callCounter' = g_FenceValue

\* Signal(g_CommandQueue, g_Fence, g_FenceValue) called on its own.
CallSignal ==
    /\ Call("Signal")
    /\ g_FenceValue < MaxFence
    /\ pc' = "sig_inc"
    /\ UNCHANGED <<cpuVars, engineVars, histVars, fenceValue, duration,
                   fenceValueForSignal>>

\* WaitForFenceValue(g_Fence, v, g_FenceEvent, d) called on its own.
CallWait(v, d) ==
    /\ Call("Wait")
    /\ BagCardinality(regs) < MaxRegs
    /\ fenceValue' = v
    /\ duration' = d
    /\ pc' = "wfv_check"
    /\ UNCHANGED <<cpuVars, engineVars, histVars, fenceValueForSignal>>

\* Flush(g_CommandQueue, g_Fence, g_FenceValue, g_FenceEvent): first its Signal.
CallFlush ==
    /\ Call("Flush")
    /\ g_FenceValue < MaxFence
    /\ BagCardinality(regs) < MaxRegs
    /\ pc' = "sig_inc"
    /\ UNCHANGED <<cpuVars, engineVars, histVars, fenceValue, duration,
                   fenceValueForSignal>>

(* ------------------------------------------------------------------ *)
(* Producer: Signal                                                   *)
(* ------------------------------------------------------------------ *)

\* uint64_t fenceValueForSignal = ++fenceValue;
SignalIncrement ==
    /\ pc = "sig_inc"
    /\ g_FenceValue' = PreIncrement(g_FenceValue).counter
    /\ fenceValueForSignal' = PreIncrement(g_FenceValue).value
    /\ pc' = "sig_enqueue"
    /\ UNCHANGED <<g_FrameFenceValues, g_CurrentBackBufferIndex, engineVars,
                   histVars, op, fenceValue, duration, result, waitEnd,
                   engineFailed, callCounter>>

\* Where Signal's caller goes on with the returned value.
SignalReturn ==
    /\ returned' = Append(returned, fenceValueForSignal)
    /\ CASE op = "Signal" ->
              /\ pc' = "idle"
              /\ result' = "returned"
              /\ UNCHANGED <<fenceValue, duration>>
         [] op = "Flush" ->
              \* WaitForFenceValue(fence, fenceValueForSignal, fenceEvent)
              /\ pc' = "wfv_check"
              /\ fenceValue' = fenceValueForSignal
              /\ duration' = MillisecondsMax
              /\ UNCHANGED result
         [] op = "Render" ->
              /\ pc' = "render_store"
              /\ UNCHANGED <<fenceValue, duration, result>>

\* The enqueue left out: the queue never sets the fence to the value.
EnqueueDropped(q, v) == q

\* commandQueue->Signal(fence, v): the signal is put behind the work already
\* enqueued.
EnqueueSignal(q, v) == Append(q, v)

\* ThrowIfFailed(commandQueue->Signal(fence.Get(), fenceValueForSignal));
\* return fenceValueForSignal;
SignalEnqueue ==
    /\ pc = "sig_enqueue"
    /\ \E ok \in EngineCallSucceeds :
         IF ok
         THEN /\ queue' = EnqueueSignal(queue, fenceValueForSignal)
              /\ SignalReturn
              /\ UNCHANGED engineFailed
         ELSE /\ Throw
              /\ UNCHANGED <<queue, returned, fenceValue, duration>>
    /\ UNCHANGED <<cpuVars, completed, deviceRemoved, eventSet, regs, op,
                   fenceValueForSignal, waitEnd, callCounter, usedSlots,
                   waitTargets, iterSignals>>

(* ------------------------------------------------------------------ *)
(* Producer: WaitForFenceValue                                        *)
(* ------------------------------------------------------------------ *)

\* WaitForFenceValue returns (void): where its caller goes on.
WaitReturn(how) ==
    /\ waitEnd' = how
    /\ IF op = "Render"
       THEN pc' = "render_record" /\ UNCHANGED result
       ELSE pc' = "idle" /\ result' = "returned"

\* if (fence->GetCompletedValue() < fenceValue)
WaitCheck ==
    /\ pc = "wfv_check"
    /\ engineFailed' = deviceRemoved
    /\ IF FenceLess(fenceValue)
       THEN /\ pc' = "wfv_register"
            /\ UNCHANGED <<result, waitEnd>>
       ELSE WaitReturn("nowait")
    /\ UNCHANGED <<cpuVars, engineVars, histVars, op, fenceValue, duration,
                   fenceValueForSignal, callCounter>>

\* ThrowIfFailed(fence->SetEventOnCompletion(fenceValue, fenceEvent));
WaitRegister ==
    /\ pc = "wfv_register"
    /\ \E ok \in EngineCallSucceeds :
         IF ok
         THEN /\ regs' = regs (+) SetToBag({fenceValue})
              /\ pc' = "wfv_block"
              /\ UNCHANGED <<result, engineFailed>>
         ELSE /\ Throw
              /\ UNCHANGED regs
    /\ UNCHANGED <<cpuVars, completed, deviceRemoved, queue, eventSet,
                   histVars, op, fenceValue, duration, fenceValueForSignal,
                   waitEnd, callCounter>>

\* ::WaitForSingleObject(fenceEvent, ...) returns WAIT_OBJECT_0: the event was
\* signalled, and being auto-reset it is reset by the wait.  The return value
\* is discarded.
WaitBlockSignaled ==
    /\ pc = "wfv_block"
    /\ eventSet
    /\ eventSet' = FALSE
    /\ WaitReturn("signaled")
    /\ UNCHANGED <<cpuVars, completed, deviceRemoved, queue, regs, histVars,
                   op, fenceValue, duration, fenceValueForSignal,
                   engineFailed, callCounter>>

\* ::WaitForSingleObject(fenceEvent, static_cast<DWORD>(duration.count()))
\* returns WAIT_TIMEOUT.  The return value is discarded.
WaitBlockTimeout ==
    /\ pc = "wfv_block"
    /\ ~eventSet
    /\ StaticCastDWORD(duration) # INFINITE
    /\ WaitReturn("timeout")
    /\ UNCHANGED <<cpuVars, engineVars, histVars, op, fenceValue, duration,
                   fenceValueForSignal, engineFailed, callCounter>>

(* ------------------------------------------------------------------ *)
(* Producer: the render loop, one iteration                           *)
(* ------------------------------------------------------------------ *)

\* (1) advance to the next slot, (2) wait on that slot's stored value.
RenderAdvance ==
    /\ Call("Render")
    /\ g_FenceValue < MaxFence
    /\ BagCardinality(regs) < MaxRegs
    /\ g_CurrentBackBufferIndex' = (g_CurrentBackBufferIndex + 1) % g_NumFrames
    /\ fenceValue' = g_FrameFenceValues[g_CurrentBackBufferIndex']
    /\ duration' = MillisecondsMax
    /\ usedSlots' = Append(usedSlots, g_CurrentBackBufferIndex')
    /\ waitTargets' = Append(waitTargets, fenceValue')
    /\ pc' = "wfv_check"
    /\ UNCHANGED <<g_FenceValue, g_FrameFenceValues, engineVars,
                   fenceValueForSignal, returned, iterSignals>>

\* (3) the producer records into the slot's command allocator, then
\* (4) calls Signal.
RenderRecord ==
    /\ pc = "render_record"
    /\ pc' = "sig_inc"
    /\ UNCHANGED <<cpuVars, engineVars, histVars, op, fenceValue, duration,
                   fenceValueForSignal, result, waitEnd, engineFailed,
                   callCounter>>

\* (5) the returned value becomes the slot's stored value.
RenderStore ==
    /\ pc = "render_store"
    /\ g_FrameFenceValues' =
         [g_FrameFenceValues EXCEPT ![g_CurrentBackBufferIndex] = fenceValueForSignal]
    /\ iterSignals' = Append(iterSignals, fenceValueForSignal)
    /\ pc' = "idle"
    /\ result' = "returned"
    /\ UNCHANGED <<g_FenceValue, g_CurrentBackBufferIndex, engineVars, op,
                   fenceValue, duration, fenceValueForSignal, waitEnd,
                   engineFailed, callCounter, returned, usedSlots, waitTargets>>

(* ------------------------------------------------------------------ *)
(* Engine: command queue, fence, event                                *)
(* ------------------------------------------------------------------ *)

\* The command queue reaches its oldest fence signal and sets the fence.
Execute ==
    /\ ~deviceRemoved
    /\ queue # <<>>
    /\ completed' = Head(queue)
    /\ queue' = Tail(queue)
    /\ UNCHANGED <<cpuVars, callVars, histVars, deviceRemoved, eventSet, regs>>

\* A SetEventOnCompletion registration whose value the fence has reached
\* signals the event, once.
FireEvent(v) ==
    /\ BagIn(v, regs)
    /\ FenceAtLeast(v)
    /\ eventSet' = TRUE
    /\ regs' = regs (-) SetToBag({v})
    /\ UNCHANGED <<cpuVars, callVars, histVars, completed, deviceRemoved, queue>>

\* The device is removed: the queue stops, the fence reads UINT64_MAX.
DeviceRemoved ==
    /\ ~deviceRemoved
    /\ deviceRemoved' = TRUE
    /\ UNCHANGED <<cpuVars, callVars, histVars, completed, queue, eventSet, regs>>

(* ------------------------------------------------------------------ *)
(* Specifications                                                     *)
(* ------------------------------------------------------------------ *)

Targets == 0 .. MaxFence

ApiCallWait == \E v \in Targets, d \in Durations : CallWait(v, d)

EngineFire == \E v \in Targets : FireEvent(v)

\* A wait within its precondition: the target is a value Signal has returned
\* (or the initial 0).
ContractCallWait ==
    \E v \in 0 .. g_FenceValue, d \in Durations : CallWait(v, d)

\* The operations of main.cpp called in any order, with any target and any
\* timeout.
Next ==
    \/ CallSignal
    \/ ApiCallWait
    \/ CallFlush
    \/ SignalIncrement
    \/ SignalEnqueue
    \/ WaitCheck
    \/ WaitRegister
    \/ WaitBlockSignaled
    \/ WaitBlockTimeout
    \/ Execute
    \/ EngineFire
    \/ DeviceRemoved

Spec == Init /\ [][Next]_vars

\* The operations of main.cpp called in any order with any timeout, every
\* wait within its precondition.
ContractNext ==
    \/ CallSignal
    \/ ContractCallWait
    \/ CallFlush
    \/ SignalIncrement
    \/ SignalEnqueue
    \/ WaitCheck
    \/ WaitRegister
    \/ WaitBlockSignaled
    \/ WaitBlockTimeout
    \/ Execute
    \/ EngineFire
    \/ DeviceRemoved

ContractSpec == Init /\ [][ContractNext]_vars

\* The render loop (with Flush between iterations), every wait with the
\* default duration.
LoopNext ==
    \/ RenderAdvance
    \/ RenderRecord
    \/ RenderStore
    \/ CallFlush
    \/ SignalIncrement
    \/ SignalEnqueue
    \/ WaitCheck
    \/ WaitRegister
    \/ WaitBlockSignaled
    \/ Execute
    \/ EngineFire
    \/ DeviceRemoved

LoopSpec == Init /\ [][LoopNext]_vars

\* Waits within their precondition with any timeout, Flush and the render
\* loop, on a device that is not removed, the producer thread scheduled whenever it can step, the command queue
\* executing what is enqueued, and every reached registration signalling the
\* event.  A timeout is never forced to elapse.
LiveNext ==
    \/ ContractCallWait
    \/ CallFlush
    \/ RenderAdvance
    \/ RenderRecord
    \/ RenderStore
    \/ SignalIncrement
    \/ SignalEnqueue
    \/ WaitCheck
    \/ WaitRegister
    \/ WaitBlockSignaled
    \/ WaitBlockTimeout
    \/ Execute
    \/ EngineFire

\* One step of the producer thread inside an operation.
ProducerStep ==
    \/ SignalIncrement
    \/ SignalEnqueue
    \/ WaitCheck
    \/ WaitRegister
    \/ WaitBlockSignaled
    \/ RenderRecord
    \/ RenderStore

LiveSpec ==
    /\ Init
    /\ [][LiveNext]_vars
    /\ WF_vars(ProducerStep)
    /\ WF_vars(Execute)
    /\ WF_vars(EngineFire)

(* ------------------------------------------------------------------ *)
(* Claims                                                             *)
(* ------------------------------------------------------------------ *)

\* C1 (LoopSpec): no premature reuse.  Whenever the render loop is about to
\* record into the current slot, the fence has reached the value stored for
\* that slot: the wait on it has returned with the completed value at or
\* above it.
C1_NoPrematureReuse ==
    pc = "render_record" =>
        \/ deviceRemoved
        \/ completed >= g_FrameFenceValues[g_CurrentBackBufferIndex]

\* C1 witness: a slot used before is about to be recorded into again, after
\* its wait had to block until the event was signalled.
C1_Witness ==
    /\ pc = "render_record"
    /\ ~deviceRemoved
    /\ waitEnd = "signaled"
    /\ Len(usedSlots) > g_NumFrames
    /\ g_FrameFenceValues[g_CurrentBackBufferIndex] > 0
    /\ queue # <<>>

\* C4 (Spec): monotonicity.  The k-th value Signal returns is k; each Signal,
\* the one inside Flush included, returns the counter at its call plus 1,
\* which is the counter after it; g_FenceValue never decreases and changes
\* only in Signal's increment, by exactly 1.
C4_Monotonicity ==
    /\ [](\A k \in DOMAIN returned : returned[k] = k)
    /\ [][ /\ g_FenceValue' >= g_FenceValue
           /\ g_FenceValue' # g_FenceValue =>
                 pc = "sig_inc" /\ g_FenceValue' = g_FenceValue + 1
           /\ returned' # returned =>
                 /\ pc = "sig_enqueue"
                 /\ returned' = Append(returned, callCounter + 1)
                 /\ returned' = Append(returned, g_FenceValue) ]_vars

\* C4 witness: three Signals have returned 1, 2, 3, the last inside a Flush
\* that has returned, with waits in between.
C4_Witness ==
    /\ returned = <<1, 2, 3>>
    /\ op = "Flush"
    /\ pc = "idle"
    /\ result = "returned"
    /\ g_FenceValue = 3

\* C2 (Spec): a WaitForFenceValue called with the default (unbounded)
\* duration for a value Signal has returned comes back only when the fence
\* has reached that value, whatever was called on the same fence and event
\* before, earlier waits that timed out included.
C2_UnboundedWaitReached ==
    ( /\ pc = "idle"
      /\ op = "Wait"
      /\ result = "returned"
      /\ StaticCastDWORD(duration) = INFINITE
      /\ fenceValue <= g_FenceValue )
    => FenceAtLeast(fenceValue)

\* C3 (Spec): flush completeness.  When Flush has returned, the fence has
\* reached the counter value read when Flush was called, and the value
\* Flush's own Signal returned.
C3_FlushCompleteness ==
    (pc = "idle" /\ op = "Flush" /\ result = "returned")
    => FenceAtLeast(callCounter) /\ FenceAtLeast(fenceValueForSignal)

\* C5 (Spec): the wait compares against its exact target.  Whenever the
\* fence is already at or above the target when WaitForFenceValue checks it,
\* the call returns at once: no registration on the event, no block, no
\* error, nothing of the fence, queue, event or counter changed, whatever
\* larger signals are pending.  And a target once reached stays reached, so
\* every later wait on it or on a smaller one takes this path.
C5_ExactTargetFastPath ==
    [][ /\ \A v \in 0 .. MaxFence : FenceAtLeast(v) => FenceAtLeast(v)'
        /\ (pc = "wfv_check" /\ pc' # pc /\ FenceAtLeast(fenceValue)) =>
              /\ pc' = "idle"
              /\ result' = "returned"
              /\ waitEnd' = "nowait"
              /\ UNCHANGED <<cpuVars, completed, queue, eventSet, regs>> ]_vars

\* C5 witness: wait(1) has returned without blocking, the fence at 2 and the
\* signal for 3 still pending.
C5_Witness ==
    /\ pc = "idle"
    /\ op = "Wait"
    /\ waitEnd = "nowait"
    /\ result = "returned"
    /\ ~deviceRemoved
    /\ fenceValue = 1
    /\ completed = 2
    /\ queue = <<3>>

\* C6 (Spec): a wait that ended by timeout surfaces a TimeoutError to its
\* caller, so that the caller can tell it from a satisfied wait.
C6_TimeoutSurfaced ==
    (pc = "idle" /\ waitEnd = "timeout") => result = "TimeoutError"

\* C7 (Spec): when an engine call of an operation has failed (the
\* completed-value query on a removed device, the wait registration, the
\* signal enqueue), the operation has ended with a DeviceError: it has not
\* returned as if satisfied and is not blocked on the event.
C7_DeviceErrorSurfaced ==
    engineFailed => (pc = "threw" /\ result = "DeviceError")

\* C8 (Spec): a wait on a value Signal never returned (a target above the
\* counter) is rejected: it registers nothing on the event and does not
\* block.
C8_UnsignalledTargetRejected ==
    (op = "Wait" /\ fenceValue > g_FenceValue) =>
        /\ pc \notin {"wfv_register", "wfv_block"}
        /\ ~BagIn(fenceValue, regs)

InWait == pc \in {"wfv_check", "wfv_register", "wfv_block"}

\* C10 (LiveSpec): liveness.  Signal never blocks: each of its two steps can
\* always be taken.  With a queue that executes every enqueued signal in
\* order, every wait with the unbounded default duration on a value Signal
\* has returned eventually returns, and so does every Flush and every
\* render-loop iteration.
C10_Liveness ==
    /\ [](pc = "sig_inc" => ENABLED SignalIncrement)
    /\ [](pc = "sig_enqueue" => ENABLED SignalEnqueue)
    /\ (InWait /\ StaticCastDWORD(duration) = INFINITE /\ fenceValue <= g_FenceValue)
          ~> ~InWait
    /\ (op = "Flush" /\ pc # "idle")
          ~> (op = "Flush" /\ pc = "idle" /\ result = "returned")
    /\ (op = "Render" /\ pc # "idle")
          ~> (op = "Render" /\ pc = "idle" /\ result = "returned")

\* C10 witness: after at least one render-loop iteration, a Flush has
\* returned, its wait having blocked until the queue reached its value.
C10_Witness ==
    /\ op = "Flush"
    /\ pc = "idle"
    /\ result = "returned"
    /\ waitEnd = "signaled"
    /\ completed = fenceValueForSignal
    /\ Len(usedSlots) > 0

C12_DefaultNeverTimesOut ==
    /\ [](StaticCastDWORD(MillisecondsMax) = INFINITE)
    /\ [](waitEnd = "timeout" => duration # MillisecondsMax)
    /\ []((op = "Flush" /\ InWait) => duration = MillisecondsMax)
    /\ [][ (pc = "wfv_block" /\ pc' # pc /\ duration = MillisecondsMax) =>
              (eventSet /\ ~eventSet' /\ waitEnd' = "signaled") ]_vars

\* C12 witness: a Flush is blocked on the event, which is not signalled, its
\* value not yet reached, the registration of an earlier wait still pending.
C12_Witness ==
    /\ op = "Flush"
    /\ pc = "wfv_block"
    /\ duration = MillisecondsMax
    /\ ~eventSet
    /\ ~deviceRemoved
    /\ completed < fenceValue
    /\ BagIn(fenceValue, regs)
    /\ BagCardinality(regs) = 2

====
